---- MODULE Spec2Model ----
(***************************************************************************)
(* The camera control panel, one specification per React component, each   *)
(* over its own state and leaving the other components' state alone:       *)
(*                                                                         *)
(*   Spec           SequencePlanner: the React state `sequences` (the      *)
(*                  planned frame groups), the add form `newSequence` and  *)
(*                  the handlers that change them, each click followed by  *)
(*                  React's re-render.  `rendered` is the value of         *)
(*                  `sequences` that the handlers of the last render       *)
(*                  closed over, `now` the wall clock read by Date.now(),  *)
(*                  and `edits` counts the changes made to the add form,   *)
(*                  which the model caps.                                  *)
(*   SpecBatched    SequencePlanner with the handler call and React's      *)
(*                  re-render as separate steps.                           *)
(*   SpecTelemetry  TelemetryPanel: the `telemetry` state and its          *)
(*                  one-second interval.                                   *)
(*   SpecPage       Index, NavigationBar and CameraPreview: the page       *)
(*                  state, the capture timers, the night-mode effect and   *)
(*                  the preview's local state.                             *)
(*   SpecLibrary    FileLibrary: the view, sort, filter and search state.  *)
(*                                                                         *)
(* A JavaScript number that may be NaN is a record [nan, val]; texts that  *)
(* the code parses (an <input type="number"> value, an exposure label) are *)
(* sequences of one-character strings, so that parseInt is computed as the *)
(* code computes it.                                                       *)
(***************************************************************************)
EXTENDS Integers, Sequences, FiniteSets, TLC

VARIABLES sequences, rendered, newSequence, now, edits,
          telemetry, page, preview, library

plannerVars == <<sequences, rendered, newSequence, now, edits>>

vars == <<plannerVars, telemetry, page, preview, library>>

\* what each component leaves alone
otherThanPlanner == <<telemetry, page, preview, library>>

otherThanTelemetry == <<plannerVars, page, preview, library>>

otherThanPage == <<plannerVars, telemetry, library>>

otherThanLibrary == <<plannerVars, telemetry, page, preview>>

----------------------------------------------------------------------------
(* Bounds of the model *)

\* the number of items the operator adds to the two initial ones
MaxAdded == 2

\* the number of milliseconds the clock advances while the page is open
MaxClock == 1

\* the number of times the operator changes a field of the add form
MaxEdits == 2

\* the number of jitter steps a simulated reading (sensor and CPU
\* temperature, focus metric) wanders from its initial value
MaxDrift == 1

\* the number of capture timers pending at once
MaxPending == 2

----------------------------------------------------------------------------
(* JavaScript numbers and parseInt *)

Num(n) == [nan |-> FALSE, val |-> n]

NaN == [nan |-> TRUE, val |-> 0]

\* a === b on numbers: false as soon as one side is NaN
JsEq(a, b) == ~a.nan /\ ~b.nan /\ a.val = b.val

\* a <= b on numbers: false as soon as one side is NaN
JsLe(a, b) == ~a.nan /\ ~b.nan /\ a.val <= b.val

DigitChars == {"0", "1", "2", "3", "4", "5", "6", "7", "8", "9"}

DigitVal(c) ==
  CASE c = "0" -> 0 [] c = "1" -> 1 [] c = "2" -> 2 [] c = "3" -> 3
    [] c = "4" -> 4 [] c = "5" -> 5 [] c = "6" -> 6 [] c = "7" -> 7
    [] c = "8" -> 8 [] c = "9" -> 9

\* the length of the longest prefix of s made of digits
RECURSIVE DigitPrefixLen(_)
DigitPrefixLen(s) ==
  IF s = <<>> \/ Head(s) \notin DigitChars THEN 0
  ELSE 1 + DigitPrefixLen(Tail(s))

\* the value of a sequence of digits, most significant first
RECURSIVE DigitsValue(_)
DigitsValue(s) ==
  IF s = <<>> THEN 0
  ELSE 10 * DigitsValue(SubSeq(s, 1, Len(s) - 1)) + DigitVal(s[Len(s)])

RECURSIVE SkipSpaces(_)
SkipSpaces(s) ==
  IF s # <<>> /\ Head(s) = " " THEN SkipSpaces(Tail(s)) ELSE s

\* parseInt(text): leading white space, an optional sign, then the longest
\* run of decimal digits; NaN when there is no digit
ParseInt(text) ==
  LET t    == SkipSpaces(text)
      neg  == t # <<>> /\ Head(t) = "-"
      body == IF t # <<>> /\ Head(t) \in {"-", "+"} THEN Tail(t) ELSE t
      n    == DigitPrefixLen(body)
  IN  IF n = 0 THEN NaN
      ELSE Num((IF neg THEN -1 ELSE 1) * DigitsValue(SubSeq(body, 1, n)))

----------------------------------------------------------------------------
(* What the operator can enter in the add form *)

\* the values of the Type select
SequenceTypes == {"subs", "darks", "bias", "flats"}

\* texts of the Frames field: empty, zero, negative, positive
FrameTexts == { <<>>, <<"0">>, <<"-", "1">>, <<"2">> }

\* values of the Exposure select that the model draws (of 30, 60, 120, 300,
\* 600): the options carry no inch mark, the initial '300"' does
ExposureValues == { <<"3", "0">>, <<"3", "0", "0">> }

\* texts of the ISO/Gain field
GainTexts == { <<"8", "0", "0">> }

----------------------------------------------------------------------------
(* The component's state *)

\* useState<SequenceItem[]>([...]): the two mock items
InitialSequences ==
  << [id |-> "1", type |-> "subs", frames |-> Num(30),
      exposure |-> <<"3", "0", "0", "\"">>, gain |-> Num(1600),
      completed |-> 12, status |-> "running"],
     [id |-> "2", type |-> "darks", frames |-> Num(10),
      exposure |-> <<"3", "0", "0", "\"">>, gain |-> Num(1600),
      completed |-> 0, status |-> "pending"] >>

\* useState({type: 'subs', frames: 30, exposure: '300"', gain: 1600, interval: 5})
InitialNewSequence ==
  [type |-> "subs", frames |-> Num(30), exposure |-> <<"3", "0", "0", "\"">>,
   gain |-> Num(1600), interval |-> 5]

\* the clock starts at some instant of the session; Date.now() counts
\* milliseconds since 1970, far from the mock ids "1" and "2"
PlannerInit ==
  /\ sequences = InitialSequences
  /\ rendered = InitialSequences
  /\ newSequence = InitialNewSequence
  /\ now = 1000
  /\ edits = 0

\* an optional number: undefined, or a number
Undefined == [defined |-> FALSE, val |-> 0]

Def(n) == [defined |-> TRUE, val |-> n]

\* useState<TelemetryData>({...}): temperatures in hundredths of a degree,
\* storage in tenths of a gigabyte, the rest in the code's units
InitialTelemetry ==
  [sensorTemp |-> 4250, cpuTemp |-> 6520, cpuUsage |-> 35,
   storageUsed |-> 1256, storageTotal |-> 512, batteryLevel |-> Def(78),
   wifiSignal |-> 85, focusMetric |-> 892, exposureRemaining |-> Def(245)]

\* Index: its five useState values, the pending setTimeout callbacks (the
\* milliseconds each has left, oldest first), the class list of
\* document.documentElement and the night-mode effects not yet run (the
\* nightMode each closed over); the effect of the first render is pending
InitialPage ==
  [activeTab |-> "preview", nightMode |-> FALSE, isRecording |-> FALSE,
   isSequenceRunning |-> FALSE, isCapturing |-> FALSE, timers |-> <<>>,
   rootClasses |-> {}, effects |-> <<FALSE>>]

\* CameraPreview: useState(true), useState(false), useState(1); the zoom
\* in hundredths
InitialPreview == [showHistogram |-> TRUE, showZebras |-> FALSE, zoom |-> 100]

\* FileLibrary: useState('grid'), useState('date'), useState('all'),
\* useState('')
InitialLibrary ==
  [viewMode |-> "grid", sortBy |-> "date", filterType |-> "all",
   searchTerm |-> <<>>]

Init ==
  /\ PlannerInit
  /\ telemetry = InitialTelemetry
  /\ page = InitialPage
  /\ preview = InitialPreview
  /\ library = InitialLibrary

\* one millisecond passes
Tick ==
  /\ now < 1000 + MaxClock
  /\ now' = now + 1
  /\ UNCHANGED <<sequences, rendered, newSequence, edits>>
  /\ UNCHANGED otherThanPlanner

----------------------------------------------------------------------------
(* The add form's change handlers *)

SetType(value) ==
  /\ edits < MaxEdits
  /\ edits' = edits + 1
  /\ newSequence' = [newSequence EXCEPT !.type = value]
  /\ UNCHANGED <<sequences, rendered, now>>
  /\ UNCHANGED otherThanPlanner

SetFrames(text) ==
  /\ edits < MaxEdits
  /\ edits' = edits + 1
  /\ newSequence' = [newSequence EXCEPT !.frames = ParseInt(text)]
  /\ UNCHANGED <<sequences, rendered, now>>
  /\ UNCHANGED otherThanPlanner

SetExposure(value) ==
  /\ edits < MaxEdits
  /\ edits' = edits + 1
  /\ newSequence' = [newSequence EXCEPT !.exposure = value]
  /\ UNCHANGED <<sequences, rendered, now>>
  /\ UNCHANGED otherThanPlanner

SetGain(text) ==
  /\ edits < MaxEdits
  /\ edits' = edits + 1
  /\ newSequence' = [newSequence EXCEPT !.gain = ParseInt(text)]
  /\ UNCHANGED <<sequences, rendered, now>>
  /\ UNCHANGED otherThanPlanner

----------------------------------------------------------------------------
(* Add to Sequence *)

\* a slip that would queue the new group as already running
NewItemRunning(form, t) ==
  [id |-> ToString(t), type |-> form.type, frames |-> form.frames,
   exposure |-> form.exposure, gain |-> form.gain, interval |-> form.interval,
   completed |-> 0, status |-> "running"]

\* { id: Date.now().toString(), ...newSequence, completed: 0, status: 'pending' }
NewItem(form, t) ==
  [id |-> ToString(t), type |-> form.type, frames |-> form.frames,
   exposure |-> form.exposure, gain |-> form.gain, interval |-> form.interval,
   completed |-> 0, status |-> "pending"]

\* a slip that would put the new group first: [sequence, ...sequences]
SpreadFront(list, item) == <<item>> \o list

\* [...sequences, sequence]
Spread(list, item) == Append(list, item)

\* the handler alone: setSequences([...sequences, sequence]) on the
\* `sequences` of the render the handler belongs to
addSequenceCall ==
  /\ Len(sequences) < Len(InitialSequences) + MaxAdded
  /\ sequences' = Spread(rendered, NewItem(newSequence, now))
  /\ UNCHANGED <<rendered, newSequence, now, edits>>
  /\ UNCHANGED otherThanPlanner

\* React re-renders the component: the handlers close over the new state
Render ==
  /\ rendered # sequences
  /\ rendered' = sequences
  /\ UNCHANGED <<sequences, newSequence, now, edits>>
  /\ UNCHANGED otherThanPlanner

\* a click on Add to Sequence: the handler, then React's re-render before
\* the next event is handled
addSequence ==
  /\ Len(sequences) < Len(InitialSequences) + MaxAdded
  /\ sequences' = Spread(rendered, NewItem(newSequence, now))
  /\ rendered' = sequences'
  /\ UNCHANGED <<newSequence, now, edits>>
  /\ UNCHANGED otherThanPlanner

----------------------------------------------------------------------------
(* Sequence Controls: three buttons without an onClick handler *)

\* a slip that would give Start a runner: the first pending group starts
StartSequenceRuns ==
  /\ \E i \in DOMAIN sequences :
       /\ sequences[i].status = "pending"
       /\ \A j \in 1..(i - 1) : sequences[j].status # "pending"
       /\ sequences' = [sequences EXCEPT ![i].status = "running"]
  /\ rendered' = sequences'
  /\ UNCHANGED <<newSequence, now, edits>>
  /\ UNCHANGED otherThanPlanner

StartSequence == UNCHANGED vars

PauseSequence == UNCHANGED vars

StopSequence == UNCHANGED vars

----------------------------------------------------------------------------
(* The "Total" badge: totalDuration *)

\* a + b and a * b on numbers: NaN as soon as one side is NaN
JsAdd(a, b) == IF a.nan \/ b.nan THEN NaN ELSE Num(a.val + b.val)

JsMul(a, b) == IF a.nan \/ b.nan THEN NaN ELSE Num(a.val * b.val)

\* a || 0 on numbers: 0 in place of NaN and of 0
OrZero(a) == IF a.nan \/ a.val = 0 THEN Num(0) ELSE a

\* text.replace('"', ''): the text without its first inch mark
RECURSIVE ReplaceInchMark(_)
ReplaceInchMark(text) ==
  IF text = <<>> THEN <<>>
  ELSE IF Head(text) = "\"" THEN Tail(text)
  ELSE <<Head(text)>> \o ReplaceInchMark(Tail(text))

\* parseInt(seq.exposure.replace('"', '')) || 0
exposureSeconds(seq) == OrZero(ParseInt(ReplaceInchMark(seq.exposure)))

\* a slip that would count only the frames still to take
RemainingTerm(seq) ==
  JsMul(JsAdd(seq.frames, Num(-seq.completed)), exposureSeconds(seq))

\* seq.frames * exposureSeconds
DurationTerm(seq) == JsMul(seq.frames, exposureSeconds(seq))

\* sequences.reduce((total, seq) => total + ..., total)
RECURSIVE Reduce(_, _)
Reduce(list, total) ==
  IF list = <<>> THEN total
  ELSE Reduce(Tail(list), JsAdd(total, DurationTerm(Head(list))))

totalDuration == Reduce(sequences, Num(0))

----------------------------------------------------------------------------

Next ==
  \/ Tick
  \/ \E value \in SequenceTypes : SetType(value)
  \/ \E text \in FrameTexts : SetFrames(text)
  \/ \E value \in ExposureValues : SetExposure(value)
  \/ \E text \in GainTexts : SetGain(text)
  \/ addSequence
  \/ StartSequence
  \/ PauseSequence
  \/ StopSequence

Spec == Init /\ [][Next]_vars

----------------------------------------------------------------------------
(* TelemetryPanel: the one-second interval *)

Max(a, b) == IF a >= b THEN a ELSE b

Min(a, b) == IF a <= b THEN a ELSE b

\* values of (Math.random() - 0.5) * 0.5, in hundredths of a degree
SensorTempJitters == {-20, 20}

\* values of (Math.random() - 0.5) * 2, in hundredths of a degree
CpuTempJitters == {-50, 50}

\* values of (Math.random() - 0.5) * 10
CpuUsageJitters == {-4, 4}

\* values of (Math.random() - 0.5) * 50
FocusJitters == {-20, 20}

\* the model keeps a wandering reading within MaxDrift steps of its start
WithinDrift(value, start, step) ==
  value - start \in (-(MaxDrift * step))..(MaxDrift * step)

\* a slip that would forget the lower clamp
ClampUsageNoFloor(usage) == Min(90, usage)

\* Math.max(10, Math.min(90, usage))
ClampUsage(usage) == Max(10, Min(90, usage))

\* a slip that would test for undefined instead of truthiness
NextExposureSticky(prev) ==
  IF prev.defined THEN Def(Max(0, prev.val - 1)) ELSE Undefined

\* prev ? Math.max(0, prev - 1) : undefined, where 0 and undefined are falsy
NextExposure(prev) ==
  IF prev.defined /\ prev.val # 0 THEN Def(Max(0, prev.val - 1))
  ELSE Undefined

\* setTelemetry(prev => ({...prev, ...})) with the four random draws
TelemetryTick ==
  /\ \E js \in SensorTempJitters, jc \in CpuTempJitters,
        ju \in CpuUsageJitters, jf \in FocusJitters :
       /\ WithinDrift(telemetry.sensorTemp + js, InitialTelemetry.sensorTemp, 20)
       /\ WithinDrift(telemetry.cpuTemp + jc, InitialTelemetry.cpuTemp, 50)
       /\ WithinDrift(telemetry.focusMetric + jf, InitialTelemetry.focusMetric, 20)
       /\ telemetry' =
            [telemetry EXCEPT
               !.sensorTemp = @ + js,
               !.cpuTemp = @ + jc,
               !.cpuUsage = ClampUsage(@ + ju),
               !.focusMetric = @ + jf,
               !.exposureRemaining = NextExposure(@)]
  /\ UNCHANGED otherThanTelemetry

NextTelemetry == TelemetryTick

SpecTelemetry == Init /\ [][NextTelemetry]_vars

----------------------------------------------------------------------------
(* Index, NavigationBar and CameraPreview.  A passive effect scheduled by a
   render runs as a step of its own, at the latest before the next render.
   CameraPreview is mounted on the preview tab only and starts from its
   initial state at every mount. *)

\* the tab ids of the navigation bar
Tabs == {"preview", "sequence", "library", "settings"}

\* the delay of the capture timer, in milliseconds
CaptureDuration == 2000

\* the amounts of time, in milliseconds, that pass in one step
Delays == {500, 1000}

\* a slip that would never remove the class
nightEffectAddOnly(nightMode, classes) ==
  IF nightMode THEN classes \cup {"night"} ELSE classes

\* the effect body: classList.add('night') or classList.remove('night')
nightEffect(nightMode, classes) ==
  IF nightMode THEN classes \cup {"night"} ELSE classes \ {"night"}

\* the page once the effect still pending, if any, has run
ApplyEffects(p) ==
  IF p.effects = <<>> THEN p
  ELSE [p EXCEPT !.rootClasses = nightEffect(Head(p.effects), @),
                 !.effects = Tail(@)]

\* the pending night-mode effect runs
RunEffect ==
  /\ page.effects # <<>>
  /\ page' = ApplyEffects(page)
  /\ UNCHANGED <<preview, otherThanPage>>

\* setNightMode(enabled) and the render that schedules the effect
onNightModeToggle(enabled) ==
  /\ page' = [ApplyEffects(page) EXCEPT !.nightMode = enabled,
                                        !.effects = Append(@, enabled)]
  /\ UNCHANGED <<preview, otherThanPage>>

\* the switch of the navigation bar
NavNightSwitch == onNightModeToggle(~page.nightMode)

\* the switch of the settings tab
SettingsNightSwitch ==
  /\ page.activeTab = "settings"
  /\ onNightModeToggle(~page.nightMode)

\* setActiveTab(tab); leaving the preview tab unmounts CameraPreview
onTabChange(tab) ==
  /\ page' = [ApplyEffects(page) EXCEPT !.activeTab = tab]
  /\ preview' = IF tab = "preview" THEN preview ELSE InitialPreview
  /\ UNCHANGED otherThanPage

TabPress == \E tab \in Tabs \ {page.activeTab} : onTabChange(tab)

\* a slip that would start a sequence on Capture
handleStartCaptureSequence ==
  /\ page' = [ApplyEffects(page) EXCEPT !.isCapturing = TRUE,
                                        !.isSequenceRunning = TRUE,
                                        !.timers = Append(@, CaptureDuration)]
  /\ UNCHANGED <<preview, otherThanPage>>

\* setIsCapturing(true); setTimeout(() => setIsCapturing(false), 2000)
handleStartCapture ==
  /\ page' = [ApplyEffects(page) EXCEPT !.isCapturing = TRUE,
                                        !.timers = Append(@, CaptureDuration)]
  /\ UNCHANGED <<preview, otherThanPage>>

\* setIsSequenceRunning(false); setIsRecording(false)
handleStopCapture ==
  /\ page' = [ApplyEffects(page) EXCEPT !.isSequenceRunning = FALSE,
                                        !.isRecording = FALSE]
  /\ UNCHANGED <<preview, otherThanPage>>

\* the branch of the quick actions that renders the Stop Sequence button
StopSequenceShown == page.isSequenceRunning

StopSequencePress == StopSequenceShown /\ handleStopCapture

CapturePress ==
  /\ ~StopSequenceShown
  /\ Len(page.timers) < MaxPending
  /\ handleStartCapture

\* the Record button has no onClick
RecordPress == ~StopSequenceShown /\ UNCHANGED vars

\* the quick action buttons: Capture and Record, or Stop Sequence
QuickAction ==
  IF StopSequenceShown THEN StopSequencePress
  ELSE CapturePress \/ RecordPress

\* the callback of the oldest capture timer, when its delay has passed
captureTimeout ==
  /\ page.timers # <<>>
  /\ Head(page.timers) = 0
  /\ page' = [ApplyEffects(page) EXCEPT !.isCapturing = FALSE,
                                        !.timers = Tail(@)]
  /\ UNCHANGED <<preview, otherThanPage>>

\* time passes, up to the moment the next timer is due
Advance ==
  /\ page.timers # <<>>
  /\ \E d \in Delays :
       /\ \A i \in DOMAIN page.timers : page.timers[i] >= d
       /\ page' = [page EXCEPT
                     !.timers = [i \in DOMAIN @ |-> @[i] - d]]
  /\ UNCHANGED <<preview, otherThanPage>>

\* setShowHistogram(!showHistogram)
HistogramPress ==
  /\ page.activeTab = "preview"
  /\ preview' = [preview EXCEPT !.showHistogram = ~@]
  /\ page' = ApplyEffects(page)
  /\ UNCHANGED otherThanPage

\* setShowZebras(!showZebras)
ZebrasPress ==
  /\ page.activeTab = "preview"
  /\ preview' = [preview EXCEPT !.showZebras = ~@]
  /\ page' = ApplyEffects(page)
  /\ UNCHANGED otherThanPage

\* a slip that would zoom in by twice the step
ZoomInCoarse(zoom) == IF zoom >= 300 THEN zoom ELSE Min(300, zoom + 50)

\* the zoom-in button: Math.min(3, zoom + 0.25), disabled when zoom >= 3
\* (zoom in hundredths)
ZoomAfterIn(zoom) == IF zoom >= 300 THEN zoom ELSE Min(300, zoom + 25)

\* the zoom-out button: Math.max(0.5, zoom - 0.25), disabled when zoom <= 0.5
ZoomAfterOut(zoom) == IF zoom <= 50 THEN zoom ELSE Max(50, zoom - 25)

ZoomInPress ==
  /\ page.activeTab = "preview"
  /\ preview' = [preview EXCEPT !.zoom = ZoomAfterIn(@)]
  /\ page' = IF preview' = preview THEN page ELSE ApplyEffects(page)
  /\ UNCHANGED otherThanPage

ZoomOutPress ==
  /\ page.activeTab = "preview"
  /\ preview' = [preview EXCEPT !.zoom = ZoomAfterOut(@)]
  /\ page' = IF preview' = preview THEN page ELSE ApplyEffects(page)
  /\ UNCHANGED otherThanPage

NextPage ==
  \/ RunEffect
  \/ NavNightSwitch
  \/ SettingsNightSwitch
  \/ TabPress
  \/ QuickAction
  \/ captureTimeout
  \/ Advance
  \/ HistogramPress
  \/ ZebrasPress
  \/ ZoomInPress
  \/ ZoomOutPress

SpecPage == Init /\ [][NextPage]_vars

----------------------------------------------------------------------------
(* FileLibrary: filteredFiles and groupedFiles are computed by every render
   from the four state values.  Strings are sequences of one-character
   strings. *)

UpperCase ==
  <<"A", "B", "C", "D", "E", "F", "G", "H", "I", "J", "K", "L", "M",
    "N", "O", "P", "Q", "R", "S", "T", "U", "V", "W", "X", "Y", "Z">>

LowerCase ==
  <<"a", "b", "c", "d", "e", "f", "g", "h", "i", "j", "k", "l", "m",
    "n", "o", "p", "q", "r", "s", "t", "u", "v", "w", "x", "y", "z">>

\* String.prototype.toLowerCase, one character
ToLowerChar(c) ==
  IF \E i \in DOMAIN UpperCase : UpperCase[i] = c
  THEN LowerCase[CHOOSE i \in DOMAIN UpperCase : UpperCase[i] = c]
  ELSE c

\* String.prototype.toLowerCase
ToLowerCase(text) == [i \in DOMAIN text |-> ToLowerChar(text[i])]

\* String.prototype.includes
Includes(text, part) ==
  \E start \in 0..(Len(text) - Len(part)) :
    SubSeq(text, start + 1, start + Len(part)) = part

\* the mock file data (the timestamps, which nothing reads, are left out)
mockFiles ==
  <<[id |-> "1", name |-> <<"M", "3", "1", "_", "0", "0", "1", ".", "d", "n", "g">>,
     type |-> "dng", size |-> 25600000, session |-> "M31_20240115"],
    [id |-> "2", name |-> <<"M", "3", "1", "_", "0", "0", "1", ".", "j", "p", "g">>,
     type |-> "jpeg", size |-> 8400000, session |-> "M31_20240115"],
    [id |-> "3",
     name |-> <<"p", "r", "e", "v", "i", "e", "w", "_", "0", "0", "1", ".", "h", "2", "6", "4">>,
     type |-> "h264", size |-> 15600000, session |-> "M31_20240115"],
    [id |-> "4", name |-> <<"d", "a", "r", "k", "_", "0", "0", "1", ".", "d", "n", "g">>,
     type |-> "dng", size |-> 25600000, session |-> "M31_20240115"],
    [id |-> "5", name |-> <<"s", "e", "s", "s", "i", "o", "n", ".", "j", "s", "o", "n">>,
     type |-> "json", size |-> 2048, session |-> "M31_20240115"]>>

\* the items of the filter Select
FilterTypes == {"all", "image", "video", "raw"}

\* the items of the sort Select
SortOptions == {"date", "name", "size", "type"}

\* the two view mode buttons
ViewModes == {"grid", "list"}

\* texts the operator types into the search input
SearchTerms ==
  {<<>>, <<"M", "3", "1">>, <<"m", "3", "1">>, <<"0", "0", "1">>,
   <<".", "D", "N", "G">>, <<"s", "o", "n">>, <<"x", "y", "z">>}

\* a slip that would lower the file name only
NameMatchesExact(name, searchTerm) == Includes(ToLowerCase(name), searchTerm)

\* file.name.toLowerCase().includes(searchTerm.toLowerCase())
NameMatches(name, searchTerm) ==
  Includes(ToLowerCase(name), ToLowerCase(searchTerm))

\* the filter callback, with its early returns
KeepsFile(file, filterType, searchTerm) ==
  IF /\ filterType # "all"
     /\ \/ filterType = "image" /\ file.type \notin {"jpeg", "dng", "tiff"}
        \/ filterType = "video" /\ file.type \notin {"h264", "mjpeg"}
        \/ filterType = "raw" /\ file.type # "dng"
  THEN FALSE
  ELSE IF searchTerm # <<>> /\ ~NameMatches(file.name, searchTerm)
  THEN FALSE
  ELSE TRUE

RECURSIVE Filter(_, _, _)
\* Array.prototype.filter over files with the callback above
Filter(files, filterType, searchTerm) ==
  IF files = <<>> THEN <<>>
  ELSE IF KeepsFile(Head(files), filterType, searchTerm)
       THEN <<Head(files)>> \o Filter(Tail(files), filterType, searchTerm)
       ELSE Filter(Tail(files), filterType, searchTerm)

filteredFiles == Filter(mockFiles, library.filterType, library.searchTerm)

\* a slip that would start the group anew for every file
AddToGroupOverwrite(groups, file) ==
  IF \E k \in DOMAIN groups : groups[k].session = file.session
  THEN [k \in DOMAIN groups |->
          IF groups[k].session = file.session
          THEN [groups[k] EXCEPT !.files = <<file>>]
          ELSE groups[k]]
  ELSE Append(groups, [session |-> file.session, files |-> <<file>>])

\* the reduce callback: create the session's group if missing, then push;
\* the groups are kept in the order Object.entries lists them
AddToGroup(groups, file) ==
  LET made == IF \E k \in DOMAIN groups : groups[k].session = file.session
              THEN groups
              ELSE Append(groups, [session |-> file.session, files |-> <<>>])
  IN  [k \in DOMAIN made |->
         IF made[k].session = file.session
         THEN [made[k] EXCEPT !.files = Append(@, file)]
         ELSE made[k]]

RECURSIVE GroupFiles(_, _)
\* Array.prototype.reduce from the groups collected so far
GroupFiles(groups, files) ==
  IF files = <<>> THEN groups
  ELSE GroupFiles(AddToGroup(groups, Head(files)), Tail(files))

groupedFiles == GroupFiles(<<>>, filteredFiles)

\* setSearchTerm(e.target.value)
SetSearchTerm ==
  /\ \E text \in SearchTerms : library' = [library EXCEPT !.searchTerm = text]
  /\ UNCHANGED otherThanLibrary

\* setFilterType
SetFilterType ==
  /\ \E value \in FilterTypes :
       library' = [library EXCEPT !.filterType = value]
  /\ UNCHANGED otherThanLibrary

\* setSortBy
SetSortBy ==
  /\ \E value \in SortOptions : library' = [library EXCEPT !.sortBy = value]
  /\ UNCHANGED otherThanLibrary

\* setViewMode('grid') and setViewMode('list')
SetViewMode ==
  /\ \E value \in ViewModes : library' = [library EXCEPT !.viewMode = value]
  /\ UNCHANGED otherThanLibrary

NextLibrary ==
  \/ SetSearchTerm
  \/ SetFilterType
  \/ SetSortBy
  \/ SetViewMode

SpecLibrary == Init /\ [][NextLibrary]_vars

\* the planner with the handler call and the re-render as separate steps
NextBatched ==
  \/ Tick
  \/ \E value \in SequenceTypes : SetType(value)
  \/ \E text \in FrameTexts : SetFrames(text)
  \/ \E value \in ExposureValues : SetExposure(value)
  \/ \E text \in GainTexts : SetGain(text)
  \/ addSequenceCall
  \/ Render

SpecBatched == Init /\ [][NextBatched]_vars

----------------------------------------------------------------------------
(* Properties *)

Running == {i \in DOMAIN sequences : sequences[i].status = "running"}

\* C1: in every reachable state of the planner's list at most one frame
\* group has status running, whatever was added and whichever of the
\* Start, Pause and Stop buttons were pressed.
C1_AtMostOneRunning == Cardinality(Running) <= 1

\* C1 witness: groups have been added while a group is running
C1_AddedWhileRunning ==
  /\ Len(sequences) = Len(InitialSequences) + 2
  /\ Cardinality(Running) = 1

\* C2: for every frame group, status is completed if and only if completed
\* equals frames, for every frame count the add form accepts.
C2_CompletedIffAllFrames ==
  \A i \in DOMAIN sequences :
    (sequences[i].status = "completed")
      <=> JsEq(Num(sequences[i].completed), sequences[i].frames)

\* C3: completed never decreases from one state to the next, and
\* 0 <= completed <= frames in every reachable state, whatever frame count
\* the group was created with.
C3_CompletedMonotoneInRange ==
  /\ [](\A i \in DOMAIN sequences :
          /\ 0 <= sequences[i].completed
          /\ JsLe(Num(sequences[i].completed), sequences[i].frames))
  /\ [][\A i \in DOMAIN sequences :
          i \in DOMAIN sequences' /\ sequences'[i].id = sequences[i].id
            => sequences'[i].completed >= sequences[i].completed]_vars

C5_AddWhileRunningRefused ==
  [][(addSequence /\ Running # {}) => sequences' = sequences]_vars

\* C17: no two frame groups of the list share an id, after any adds (two
\* adds within the same clock millisecond included), and an item's id never
\* changes after its creation.
C17_IdsUniqueAndFixed ==
  /\ [](\A i, j \in DOMAIN sequences :
          sequences[i].id = sequences[j].id => i = j)
  /\ [][\A i \in DOMAIN sequences :
          i \in DOMAIN sequences' /\ sequences'[i].id = sequences[i].id]_vars

\* C18: every frame group of the list has a frame count that is a positive
\* integer, for every value the operator can enter in the Frames field
\* (empty, zero and negative input included).
C18_FramesPositive ==
  \A i \in DOMAIN sequences :
    ~sequences[i].frames.nan /\ sequences[i].frames.val > 0

\* the seconds an exposure label stands for
LabelSeconds(label) ==
  CASE label = <<"3", "0">> -> 30
    [] label = <<"3", "0", "0">> -> 300
    [] label = <<"3", "0", "0", "\"">> -> 300

\* frames x exposure seconds summed over the first n groups, whatever their
\* status (frame counts read as numbers)
RECURSIVE PlannedSeconds(_)
PlannedSeconds(n) ==
  IF n = 0 THEN 0
  ELSE PlannedSeconds(n - 1)
         + sequences[n].frames.val * LabelSeconds(sequences[n].exposure)

\* (frames - completed) x exposure seconds summed over the pending and
\* running groups among the first n
RECURSIVE RemainingSeconds(_)
RemainingSeconds(n) ==
  IF n = 0 THEN 0
  ELSE RemainingSeconds(n - 1)
         + (IF sequences[n].status \in {"pending", "running"}
            THEN (sequences[n].frames.val - sequences[n].completed)
                   * LabelSeconds(sequences[n].exposure)
            ELSE 0)

SomeFramesNaN == \E i \in DOMAIN sequences : sequences[i].frames.nan

\* C19 as claimed: the time estimate counts only remaining work, the sum
\* over pending and running groups of (frames - completed) x exposure
\* seconds.
C19_EstimateIsRemainingWork ==
  ~SomeFramesNaN => totalDuration = Num(RemainingSeconds(Len(sequences)))

\* C19 as amended: the time estimate is the total planned duration, the sum
\* over all groups, whatever their status and completed count, of
\* frames x exposure seconds; it is NaN when some frame count is NaN.
C19_EstimateIsPlannedTotal ==
  IF SomeFramesNaN THEN totalDuration.nan
  ELSE totalDuration = Num(PlannedSeconds(Len(sequences)))

\* C19 witness: with an added group in the list, the estimate is a number
\* that exceeds the remaining work by the 12 frames already taken
C19_CompletedFramesCounted ==
  /\ Len(sequences) > Len(InitialSequences)
  /\ ~totalDuration.nan
  /\ totalDuration.val = RemainingSeconds(Len(sequences)) + 12 * 300

\* C21: no operation of the planner (Add to Sequence, Start, Pause, Stop)
\* changes the status or completed count of an item already in the list,
\* and Start, Pause and Stop leave the whole list unchanged.
C21_NoRunner ==
  [][/\ \A i \in DOMAIN sequences :
          /\ i \in DOMAIN sequences'
          /\ sequences'[i].status = sequences[i].status
          /\ sequences'[i].completed = sequences[i].completed
     /\ (StartSequence \/ PauseSequence \/ StopSequence)
          => sequences' = sequences]_vars

\* C21 witness: two groups were added and the two initial ones still have
\* their status and completed count
C21_InitialItemsUntouched ==
  /\ Len(sequences) = Len(InitialSequences) + 2
  /\ \A i \in DOMAIN InitialSequences :
       /\ sequences[i].status = InitialSequences[i].status
       /\ sequences[i].completed = InitialSequences[i].completed

\* C23: no add is lost: every call of addSequence makes the list one item
\* longer, also when two calls run against the same rendered value of
\* sequences.
C23_NoAddLost ==
  [][addSequenceCall => Len(sequences') = Len(sequences) + 1]_vars

\* C22: the telemetry exposure countdown starts at 245, decreases by
\* exactly 1 on every tick, is never negative, becomes undefined on the tick
\* after it reached 0 and stays undefined on all later ticks.
C22_ExposureCountdown ==
  /\ telemetry.exposureRemaining = Def(245)
  /\ [](telemetry.exposureRemaining.defined
          => telemetry.exposureRemaining.val >= 0)
  /\ [][LET prev == telemetry.exposureRemaining
            next == telemetry'.exposureRemaining
        IN  /\ (prev.defined /\ prev.val > 0) => next = Def(prev.val - 1)
            /\ (prev.defined /\ prev.val = 0) => next = Undefined
            /\ ~prev.defined => next = Undefined]_telemetry

\* C22 witness: the countdown has run out and is undefined
C22_CountdownUndefined == telemetry.exposureRemaining = Undefined

\* C27: the simulated cpuUsage stays within [10, 90] after any number of
\* ticks, whatever jitter each draws, and a tick leaves the storage,
\* battery and wifi values unchanged.
C27_CpuUsageClamped ==
  /\ [](telemetry.cpuUsage >= 10 /\ telemetry.cpuUsage <= 90)
  /\ [][/\ telemetry'.storageUsed = telemetry.storageUsed
        /\ telemetry'.storageTotal = telemetry.storageTotal
        /\ telemetry'.batteryLevel = telemetry.batteryLevel
        /\ telemetry'.wifiSignal = telemetry.wifiSignal]_telemetry

\* C27 witness: ticks have driven cpuUsage down to the lower clamp
C27_CpuUsageAtFloor ==
  /\ telemetry.cpuUsage = 10
  /\ telemetry.exposureRemaining # Def(245)

\* C24: isCapturing is true from a Capture press until 2000 ms after that
\* press, also when a second press happens while an earlier timer is still
\* pending, and it is false once no timer is pending.
C24_CapturingWhileTimerPending ==
  /\ (\E i \in DOMAIN page.timers : page.timers[i] > 0) => page.isCapturing
  /\ page.timers = <<>> => ~page.isCapturing

\* C25: isSequenceRunning and isRecording are false in every reachable
\* state, the navigation bar never shows the Stop Sequence button and
\* handleStopCapture is never invoked.
C25_NeverRunningNorRecording ==
  /\ [](/\ ~page.isSequenceRunning
        /\ ~page.isRecording
        /\ ~StopSequenceShown)
  /\ [][~StopSequencePress]_vars

\* C25 witness: a capture started from the quick actions is in progress
C25_CaptureInProgress ==
  /\ page.isCapturing
  /\ Len(page.timers) = MaxPending
  /\ ~StopSequenceShown

\* C26: after any presses of the zoom buttons the zoom is a multiple of
\* 0.25 within [0.5, 3]; zoom-out at 0.5 and zoom-in at 3 leave it
\* unchanged; below 3, zoom-in followed by zoom-out gives the zoom back.
C26_ZoomOnGrid ==
  /\ [](/\ preview.zoom \in {50 + 25 * k : k \in 0..10}
        /\ preview.zoom < 300
             => ZoomAfterOut(ZoomAfterIn(preview.zoom)) = preview.zoom)
  /\ [][/\ (ZoomOutPress /\ preview.zoom = 50) => preview'.zoom = 50
        /\ (ZoomInPress /\ preview.zoom = 300) => preview'.zoom = 300]_vars

\* C26 witness: zoom-in presses have reached the upper bound
C26_ZoomAtMaximum == page.activeTab = "preview" /\ preview.zoom = 300

\* C30: once the night-mode effect has run, the document root has the class
\* 'night' exactly when nightMode is true, whichever switch toggled it.
C30_NightClassFollowsNightMode ==
  page.effects = <<>> => ("night" \in page.rootClasses <=> page.nightMode)

\* C30 witness: night mode is on, on the settings tab, and the effect ran
C30_NightApplied ==
  /\ page.activeTab = "settings"
  /\ page.nightMode
  /\ page.effects = <<>>
  /\ "night" \in page.rootClasses

\* the file types each filter admits
TypesShown(filterType) ==
  CASE filterType = "image" -> {"jpeg", "dng", "tiff"}
    [] filterType = "video" -> {"h264", "mjpeg"}
    [] filterType = "raw" -> {"dng"}
    [] OTHER -> {"jpeg", "dng", "h264", "mjpeg", "tiff", "json"}

\* name contains term when upper and lower case letters count as equal
ContainsIgnoringCase(name, term) ==
  \E start \in 0..(Len(name) - Len(term)) :
    \A k \in 1..Len(term) :
      ToLowerChar(name[start + k]) = ToLowerChar(term[k])

\* the positions in the mock data of the files that match filter and search
MatchingPositions(filterType, term) ==
  {i \in DOMAIN mockFiles :
     /\ mockFiles[i].type \in TypesShown(filterType)
     /\ ContainsIgnoringCase(mockFiles[i].name, term)}

\* the ids of the files of a list
Ids(files) == {files[i].id : i \in DOMAIN files}

\* C28: the files shown are exactly the mock files that match the type
\* filter and contain the search term case-insensitively, in mock order;
\* choosing a sort order changes neither the files shown nor their order;
\* the 'raw' result is within the 'image' result, and the 'image' and
\* 'video' results are disjoint.
C28_ShownFilesAreTheMatches ==
  /\ [](LET matching ==
              MatchingPositions(library.filterType, library.searchTerm)
        IN  /\ Len(filteredFiles) = Cardinality(matching)
            /\ \A j \in DOMAIN filteredFiles :
                 \E i \in matching :
                   /\ filteredFiles[j] = mockFiles[i]
                   /\ Cardinality({h \in matching : h < i}) = j - 1
            /\ Ids(Filter(mockFiles, "raw", library.searchTerm))
                 \subseteq Ids(Filter(mockFiles, "image", library.searchTerm))
            /\ Ids(Filter(mockFiles, "image", library.searchTerm))
                 \cap Ids(Filter(mockFiles, "video", library.searchTerm)) = {})
  /\ [][SetSortBy => filteredFiles' = filteredFiles]_vars

\* C28 witness: an upper-case search under the RAW filter, sorted by name,
\* shows the two matching files
C28_RawSearchShown ==
  /\ library.filterType = "raw"
  /\ library.searchTerm = <<".", "D", "N", "G">>
  /\ library.sortBy = "name"
  /\ Len(filteredFiles) = 2

RECURSIVE SumOfSizes(_)
\* the number of files in all groups together
SumOfSizes(groups) ==
  IF groups = <<>> THEN 0
  ELSE Len(Head(groups).files) + SumOfSizes(Tail(groups))

\* the files of a list that belong to a session, in the order of the list
OfSession(files, session) ==
  LET InSession(file) == file.session = session
  IN  SelectSeq(files, InSession)

\* C29: the session groups partition the filtered files: each filtered file
\* is in exactly one group, the one keyed by its session; a group lists its
\* files in filtered order; no group is empty; the sizes sum to the number
\* of filtered files.
C29_GroupsPartitionFilteredFiles ==
  /\ \A i \in DOMAIN filteredFiles :
       /\ Cardinality({k \in DOMAIN groupedFiles :
            \E j \in DOMAIN groupedFiles[k].files :
              groupedFiles[k].files[j] = filteredFiles[i]}) = 1
       /\ \A k \in DOMAIN groupedFiles :
            filteredFiles[i].id \in Ids(groupedFiles[k].files)
              => groupedFiles[k].session = filteredFiles[i].session
  /\ \A k \in DOMAIN groupedFiles :
       /\ groupedFiles[k].files # <<>>
       /\ groupedFiles[k].files
            = OfSession(filteredFiles, groupedFiles[k].session)
  /\ SumOfSizes(groupedFiles) = Len(filteredFiles)

\* C29 witness: under the image filter the session's group holds the three
\* image files
C29_GroupOfThree ==
  /\ library.filterType = "image"
  /\ Len(groupedFiles) = 1
  /\ Len(groupedFiles[1].files) = 3

====
